---- MODULE Spec2Model ----
(***************************************************************************)
(* Model of the fish image scraper (src/scraping.py), its comprehensive    *)
(* test driver (src/test_comprehensive.py) and the catalog reconciliation  *)
(* scripts (src/fix_data/*.py).                                            *)
(*                                                                         *)
(* The species directory is a function from file names to contents.  A     *)
(* file name is a triple <<stem, number, extension>>:                      *)
(*   <<"sp", n, e>>     "{species}_{n:04d}.e"                              *)
(*   <<"other", n, e>>  a file not named after the species                 *)
(*   <<"temp", n, e>>   "temp_{filename}" written by download_image        *)
(***************************************************************************)
EXTENDS Integers, Sequences, FiniteSets, TLC

\* ------------------------------------------------------------------ bounds
MaxExisting == 2      \* largest sequence number among pre-existing images
MaxTarget == 2        \* largest min_images of a run
MaxValid == 2         \* most acceptable candidates one source call offers
MaxInvalid == 1       \* most rejected candidates one source call offers
MaxCalls == 2         \* most direct download_image calls on one scraper
MaxNames == 2         \* most scientific names of one species
MaxParts == 3         \* most semicolon-separated parts of a scientific-name field
MaxRows == 3          \* most rows of a catalog
MaxFailing == 1       \* last place in the source list at which a routine fails
                      \* or loses a candidate to an interrupt

\* --------------------------------------------------------- program constants
MinSide == 150        \* smallest accepted width and height
MaxAspect == 5        \* largest accepted ratio of longer to shorter side
TestMinImages == 3    \* min_images that the comprehensive test passes

VARIABLES
    caller,           \* which entry point drives the scraper
    dir,              \* species directory: file name -> content
    min_images,       \* FishImageScraper.min_images
    existing_count,   \* FishImageScraper.existing_count
    downloaded_count, \* FishImageScraper.downloaded_count
    latin_name,       \* FishImageScraper.latin_name: "unset" unless a caller sets it
    pc,               \* position of the driver
    src,              \* index of the current source in the driver's list
    validLeft,        \* acceptable candidates the current source still offers
    invalidLeft,      \* rejected candidates the current source still offers
    images_collected, \* local counter of scrape_google_images
    ret,              \* value returned by run_scraping
    last,             \* the last download_image call: candidate and outcome
    saved,            \* final file names written by the scraper, in order
    invoked,          \* source routines invoked by the driver, in order
    yielded,          \* per invoked source, the acceptable candidates it got to see
    batch,            \* scrape_species: its locals and the result it returns
    arg,              \* argument of the reconciliation function under call
    res,              \* what that function returned
    peer              \* a second scraper running on the same species directory

vars == <<caller, dir, min_images, existing_count, downloaded_count, latin_name,
          pc, src, validLeft, invalidLeft, images_collected, ret, last, saved,
          invoked, yielded, batch, arg, res, peer>>

\* ------------------------------------------------------------ file names
ImageExts == {"jpg", "jpeg", "png", "webp"}

NoFile == <<"none", 0, "">>

SpName(n, ext) == <<"sp", n, ext>>

SetMax(S) == IF S = {} THEN 0 ELSE CHOOSE m \in S : \A x \in S : x <= m

count_existing_images(d) ==
    Cardinality({f \in DOMAIN d : f[3] \in ImageExts})

get_next_file_number(d) ==
    SetMax({f[2] : f \in {g \in DOMAIN d : g[1] = "sp" /\ g[3] \in ImageExts}}) + 1

get_total_images(E, D) == E + D

\* mutant: the target counts as reached only when it is exceeded
is_target_reached_strict(E, D, N) == get_total_images(E, D) > N

is_target_reached(E, D, N) == get_total_images(E, D) >= N

\* mutant: the difference is not clamped at 0
get_remaining_needed_unclamped(E, D, N) == N - get_total_images(E, D)

\* max(0, self.min_images - total)
get_remaining_needed(E, D, N) ==
    IF N - get_total_images(E, D) > 0 THEN N - get_total_images(E, D) ELSE 0

\* ------------------------------------------------------------ candidates
\* A candidate is what one URL turns out to be when download_image handles it.
AllowedTypes == {"image/jpeg", "image/jpg", "image/png", "image/webp"}

\* content_type header: <<media type, parameters>>
ContentTypes == {<<"image/jpeg", "">>, <<"image/png", "">>, <<"image/webp", "">>,
                 <<"image/png", "; charset=binary">>, <<"text/html", "">>}

Modes == {"RGB", "RGBA", "L"}
Formats == {"JPEG", "PNG", "WEBP"}
Dims == {100, 150, 750, 751, 900}

GoodCandidate ==
    [fetch_ok |-> TRUE, content_type |-> <<"image/jpeg", "">>, temp |-> "ok",
     decode_ok |-> TRUE, width |-> 750, height |-> 750, mode |-> "RGB",
     format |-> "JPEG", save_ok |-> TRUE]

DimCandidates ==
    {[GoodCandidate EXCEPT !.width = w, !.height = h] : w \in Dims, h \in Dims}

FormatCandidates ==
    {[GoodCandidate EXCEPT !.content_type = ct, !.mode = m, !.format = f] :
        ct \in ContentTypes, m \in Modes, f \in Formats}

FailCandidates ==
    {[GoodCandidate EXCEPT !.fetch_ok = FALSE],
     [GoodCandidate EXCEPT !.temp = "open_fails"],
     [GoodCandidate EXCEPT !.temp = "write_fails"],
     [GoodCandidate EXCEPT !.decode_ok = FALSE],
     [GoodCandidate EXCEPT !.save_ok = FALSE]}

Candidates == DimCandidates \cup FormatCandidates \cup FailCandidates

\* The candidates the source routines offer in the runs: one accepted as JPG,
\* one accepted as PNG, and one that fails at each stage of download_image.
SourceCandidates ==
    {GoodCandidate,
     [GoodCandidate EXCEPT !.content_type = <<"image/png", "">>, !.mode = "L",
                           !.format = "PNG"],
     [GoodCandidate EXCEPT !.fetch_ok = FALSE],
     [GoodCandidate EXCEPT !.content_type = <<"text/html", "">>],
     [GoodCandidate EXCEPT !.temp = "write_fails"],
     [GoodCandidate EXCEPT !.decode_ok = FALSE],
     [GoodCandidate EXCEPT !.width = 100, !.height = 100],
     [GoodCandidate EXCEPT !.width = 900, !.height = 150],
     [GoodCandidate EXCEPT !.save_ok = FALSE]}


\* --------------------------------------------------------- download_image
Max2(a, b) == IF a >= b THEN a ELSE b
Min2(a, b) == IF a <= b THEN a ELSE b

\* content-type allow-list: some allowed type is a substring of the header
ContentTypeAllowed(ct) == ct[1] \in AllowedTypes

\* mutant: rejects only when both sides are short
TooSmall_both(w, h) == w < MinSide /\ h < MinSide

\* img.width < 150 or img.height < 150
TooSmall(w, h) == w < MinSide \/ h < MinSide

\* mutant: a ratio of exactly 5 is rejected too
TooElongated_inclusive(w, h) == Max2(w, h) >= MaxAspect * Min2(w, h)

\* aspect_ratio = max(w, h) / min(w, h); aspect_ratio > 5.  The float quotient
\* exceeds 5 exactly when the longer side exceeds 5 times the shorter one.
TooElongated(w, h) == Max2(w, h) > MaxAspect * Min2(w, h)

\* img.mode after the conversion step
ConvertedMode(c) ==
    IF c.mode \in {"RGBA", "LA", "P"} \/ c.format = "WEBP" THEN "RGB" ELSE c.mode

\* extension of the final file
FinalExt(c) ==
    IF c.content_type = <<"image/png", "">> /\ ConvertedMode(c) # "RGB"
    THEN "png" ELSE "jpg"

\* mutant: the number is taken from a scan of the directory at the time of
\* the save
FileNumber_scanned(E, D) == get_next_file_number(dir)

\* file_number = self.existing_count + self.downloaded_count + 1
FileNumber(E, D) == E + D + 1

TempName(c) == <<"temp", 1, "jpg">>

Put(d, f, content) == (f :> content) @@ d

Remove(d, f) == [g \in DOMAIN d \ {f} |-> d[g]]

\* mutant: the save of the final file is outside every try
Catches_save_uncovered(stage) == stage \in {"fetch", "temp", "decode"}

\* The stages of download_image that can raise are all inside a try with an
\* "except Exception": the request and the temp file in the outer one (138,
\* 205), the decoding and the save in the inner one (156, 199).
Catches(stage) == stage \in {"fetch", "temp", "decode", "save"}

\* The outcome of download_image for candidate c in directory d with the
\* counters E (existing_count) and D (downloaded_count):
\* ok = the value returned, raised = an exception left the function, dir = the
\* directory afterwards, final = the final file written (NoFile when none).
download_image(c, d, E, D) ==
    LET temp == TempName(c)
        final == SpName(FileNumber(E, D), FinalExt(c))
        Failed(stage, after) ==
            [ok |-> FALSE, raised |-> ~Catches(stage), dir |-> after, final |-> NoFile]
        Rejected(after) ==
            [ok |-> FALSE, raised |-> FALSE, dir |-> after, final |-> NoFile]
    IN  IF ~c.fetch_ok THEN Failed("fetch", d)
        ELSE IF ~ContentTypeAllowed(c.content_type) THEN Rejected(d)
        ELSE IF c.temp = "open_fails" THEN Failed("temp", d)
        ELSE IF c.temp = "write_fails" THEN Failed("temp", Put(d, temp, "partial"))
        ELSE IF ~c.decode_ok THEN Failed("decode", Remove(d, temp))
        ELSE IF TooSmall(c.width, c.height) THEN Rejected(Remove(d, temp))
        ELSE IF TooElongated(c.width, c.height) THEN Rejected(Remove(d, temp))
        ELSE IF ~c.save_ok THEN Failed("save", Remove(d, temp))
        ELSE [ok |-> TRUE, raised |-> FALSE,
              dir |-> Put(Remove(d, temp), final, "new"), final |-> final]

\* download_image returns True for candidate c
Accepted(c) == download_image(c, <<>>, 0, 0).ok

NoCall == [called |-> FALSE, cand |-> GoodCandidate, ok |-> FALSE, final |-> NoFile]


\* ------------------------------------------------------------- the sources
\* mutant: Google is tried before Bing
RunScrapers_google_before_bing ==
    <<"wikimedia", "wikipedia", "google", "bing", "flickr", "fishbase">>

\* scrapers list of run_scraping
RunScrapers == <<"wikimedia", "wikipedia", "bing", "google", "flickr", "fishbase">>

\* the routines test_all_scrapers calls, in its order
TestScrapers == <<"wikimedia", "google", "bing", "unsplash">>

Scrapers == IF caller = "test_all_scrapers" THEN TestScrapers ELSE RunScrapers

\* mutant: the Bing loops never test the target
SourceStops_bing_unchecked(name, E, D, N, collected) ==
    CASE name \in {"wikimedia", "wikipedia", "fishbase"} -> D >= N
      [] name \in {"flickr", "unsplash"} -> E + D >= N
      [] name = "bing" -> FALSE
      [] name = "google" -> collected >= N

\* The condition under which the loops of a source routine break before the
\* next candidate: wikimedia, wikipedia and fishbase compare downloaded_count
\* with min_images, bing, flickr and unsplash call is_target_reached, and
\* google compares its own images_collected with min_images.
SourceStops(name, E, D, N, collected) ==
    CASE name \in {"wikimedia", "wikipedia", "fishbase"} -> D >= N
      [] name \in {"bing", "flickr", "unsplash"} -> is_target_reached(E, D, N)
      [] name = "google" -> collected >= N

\* scrape_google_images returns before its download loop when get_driver gives
\* no driver, and leaves through its except clause when self.latin_name is read
\* on a scraper that has no such attribute.
GoogleReachesLoop(driver) == driver /\ latin_name = "set"

\* scrape_google_images, entered with a driver on a scraper without
\* latin_name, is in its except clause before it has loaded the result page
GoogleLeavesEarly(name) == name = "google" /\ latin_name = "unset"

\* A source routine is entered: the site decides what it has to offer.
EnterSource(name) ==
    /\ invoked' = Append(invoked, name)
    /\ images_collected' = 0
    /\ pc' = "source"
    /\ \E v \in 0..MaxValid, i \in 0..MaxInvalid, driver \in BOOLEAN :
          /\ name # "google" => driver
          /\ IF GoogleReachesLoop(driver) \/ name # "google"
             THEN validLeft' = v /\ invalidLeft' = i /\ yielded' = Append(yielded, v)
             ELSE IF driver
             THEN validLeft' = v /\ invalidLeft' = i /\ yielded' = Append(yielded, 0)
             ELSE validLeft' = 0 /\ invalidLeft' = 0 /\ yielded' = Append(yielded, 0)

\* One pass of a source routine's candidate loop: the break test, then
\* download_image on the next candidate.  An exception out of download_image
\* would end the routine in its except clause.
source_step ==
    /\ pc = "source"
    /\ ~GoogleLeavesEarly(Scrapers[src])
    /\ ~SourceStops(Scrapers[src], existing_count, downloaded_count, min_images,
                    images_collected)
    /\ \E c \in SourceCandidates :
          LET r == download_image(c, dir, existing_count, downloaded_count)
          IN  /\ IF Accepted(c)
                 THEN validLeft > 0 /\ validLeft' = validLeft - 1
                      /\ invalidLeft' = invalidLeft
                 ELSE invalidLeft > 0 /\ invalidLeft' = invalidLeft - 1
                      /\ validLeft' = validLeft
              /\ dir' = r.dir
              /\ downloaded_count' = IF r.ok THEN downloaded_count + 1
                                     ELSE downloaded_count
              /\ images_collected' = IF r.ok /\ Scrapers[src] = "google"
                                     THEN images_collected + 1
                                     ELSE images_collected
              /\ saved' = IF r.ok THEN Append(saved, r.final) ELSE saved
              /\ last' = [called |-> TRUE, cand |-> c, ok |-> r.ok, final |-> r.final]
              /\ pc' = IF r.raised THEN "caught" ELSE pc
              /\ src' = IF r.raised THEN src + 1 ELSE src
    /\ UNCHANGED <<peer, caller, min_images, existing_count, latin_name, ret,
                   invoked, yielded, batch, arg, res>>

\* The source routine returns: its loops broke or ran out of candidates, or
\* scrape_google_images left through its except clause.
\* scrape_google_images adds images_collected to downloaded_count on its way out.
source_return ==
    /\ pc = "source"
    /\ \/ SourceStops(Scrapers[src], existing_count, downloaded_count, min_images,
                      images_collected)
       \/ validLeft = 0 /\ invalidLeft = 0
       \/ GoogleLeavesEarly(Scrapers[src])
    /\ downloaded_count' = IF Scrapers[src] = "google" /\ latin_name = "set"
                           THEN downloaded_count + images_collected
                           ELSE downloaded_count
    /\ pc' = "loop"
    /\ src' = src + 1
    /\ validLeft' = 0
    /\ invalidLeft' = 0
    /\ UNCHANGED <<peer, caller, dir, min_images, existing_count, latin_name,
                   images_collected, ret, last, saved, invoked, yielded, batch, arg, res>>

\* ------------------------------------------------------------ run_scraping
\* run_scraping up to its loop: the early return when the target is already met
run_scraping_begin ==
    /\ pc = "ready"
    /\ caller # "test_all_scrapers"
    /\ IF is_target_reached(existing_count, downloaded_count, min_images)
       THEN /\ pc' = "returned"
            /\ ret' = get_total_images(existing_count, downloaded_count)
            /\ src' = src
       ELSE /\ pc' = "loop"
            /\ ret' = ret
            /\ src' = 1
    /\ UNCHANGED <<peer, caller, dir, min_images, existing_count, downloaded_count,
                   latin_name, validLeft, invalidLeft, images_collected, last,
                   saved, invoked, yielded, batch, arg, res>>

\* the head of "for scraper in scrapers": break when the target is reached,
\* otherwise call the next scraper; it is reached when the last routine
\* returned, also when that routine caught a failure of its own
run_scraping_loop ==
    /\ pc \in {"loop", "caught"}
    /\ caller # "test_all_scrapers"
    /\ IF src > Len(RunScrapers)
          \/ is_target_reached(existing_count, downloaded_count, min_images)
       THEN /\ pc' = "returned"
            /\ ret' = get_total_images(existing_count, downloaded_count)
            /\ UNCHANGED <<validLeft, invalidLeft, images_collected, invoked, yielded, batch, arg, res>>
       ELSE /\ EnterSource(RunScrapers[src])
            /\ ret' = ret
    /\ UNCHANGED <<peer, caller, dir, min_images, existing_count, downloaded_count,
                   latin_name, src, last, saved, batch, arg, res>>

\* ------------------------------------------------------- test_all_scrapers
\* test_all_scrapers calls its source routines one after the other
test_all_scrapers_next ==
    /\ pc \in {"ready", "loop"}
    /\ caller = "test_all_scrapers"
    /\ IF pc = "loop" /\ src > Len(TestScrapers)
       THEN /\ pc' = "returned"
            /\ UNCHANGED <<validLeft, invalidLeft, images_collected, invoked, yielded, batch, arg, res>>
       ELSE EnterSource(TestScrapers[src])
    /\ UNCHANGED <<peer, caller, dir, min_images, existing_count, downloaded_count,
                   latin_name, src, ret, last, saved, batch, arg, res>>

\* ------------------------------------------------------------ initial states
PreNames ==
    {SpName(n, "jpg") : n \in 1..MaxExisting} \cup {<<"other", 1, "jpg">>}

InitialDirs == UNION {[S -> {"old"}] : S \in SUBSET PreNames}

\* FishImageScraper.__init__ on directory d with target N
Constructed(d, N) ==
    /\ dir = d
    /\ min_images = N
    /\ existing_count = count_existing_images(d)
    /\ downloaded_count = 0
    /\ pc = "ready"
    /\ src = 1
    /\ validLeft = 0
    /\ invalidLeft = 0
    /\ images_collected = 0
    /\ ret = 0
    /\ last = NoCall
    /\ saved = <<>>
    /\ invoked = <<>>
    /\ yielded = <<>>

NoBatch == [target |-> 0, names |-> 0, attempts |-> 0, total_downloaded |-> 0,
            status |-> "NONE"]

\* no second scraper
NoPeer == [built |-> FALSE, existing_count |-> 0, downloaded_count |-> 0,
           saved |-> <<>>]

\* single_species_mode: a scraper built by the constructor, then run_scraping
Init ==
    /\ caller = "run_scraping"
    /\ batch = NoBatch
    /\ arg = <<>>
    /\ res = <<>>
    /\ peer = NoPeer
    /\ latin_name = "unset"
    /\ \E d \in InitialDirs, N \in 0..MaxTarget : Constructed(d, N)

Next == run_scraping_begin \/ run_scraping_loop \/ source_step \/ source_return

Spec == Init /\ [][Next]_vars

\* test_all_scrapers: the test directory is removed first, then the scraper is
\* built and the test sets latin_name on it
InitTest ==
    /\ caller = "test_all_scrapers"
    /\ latin_name = "set"
    /\ batch = NoBatch
    /\ arg = <<>>
    /\ res = <<>>
    /\ peer = NoPeer
    /\ Constructed(<<>>, TestMinImages)

NextTest == test_all_scrapers_next \/ source_step \/ source_return

SpecTest == InitTest /\ [][NextTest]_vars

\* ---------------------------------------------------------- direct calls
\* download_image called on a constructed scraper with any candidate; the
\* routine does not read min_images
download_image_call ==
    /\ pc = "ready"
    /\ caller = "download_image"
    /\ Len(saved) < MaxCalls
    /\ \E c \in Candidates :
          LET r == download_image(c, dir, existing_count, downloaded_count)
          IN  /\ dir' = r.dir
              /\ downloaded_count' = IF r.ok THEN downloaded_count + 1
                                     ELSE downloaded_count
              /\ saved' = IF r.ok THEN Append(saved, r.final) ELSE saved
              /\ last' = [called |-> TRUE, cand |-> c, ok |-> r.ok, final |-> r.final]
              /\ pc' = IF r.raised THEN "failed" ELSE pc
    /\ UNCHANGED <<peer, caller, min_images, existing_count, latin_name, src,
                   validLeft, invalidLeft, images_collected, ret, invoked, yielded, batch, arg, res>>

InitDownload ==
    /\ caller = "download_image"
    /\ latin_name = "unset"
    /\ batch = NoBatch
    /\ arg = <<>>
    /\ res = <<>>
    /\ peer = NoPeer
    /\ \E d \in InitialDirs : Constructed(d, MaxTarget)

NextDownload == download_image_call

SpecDownload == InitDownload /\ [][NextDownload]_vars

\* ------------------------------------------------------------- two runs
\* Two runs of the scraper for the same species, each in its own process with
\* its own FishImageScraper, write into the one species directory.  Each
\* counts the directory once, in its constructor, and numbers its files from
\* its own counters.
RaceCandidates ==
    {GoodCandidate,
     [GoodCandidate EXCEPT !.content_type = <<"image/png", "">>, !.mode = "L",
                           !.format = "PNG"],
     [GoodCandidate EXCEPT !.width = 100, !.height = 100]}

\* the second run builds its scraper: FishImageScraper.__init__ counts the
\* images the directory holds at that moment
peer_init ==
    /\ caller = "two_runs"
    /\ ~peer.built
    /\ peer' = [built |-> TRUE, existing_count |-> count_existing_images(dir),
                downloaded_count |-> 0, saved |-> <<>>]
    /\ UNCHANGED <<caller, dir, min_images, existing_count, downloaded_count,
                   latin_name, pc, src, validLeft, invalidLeft, images_collected,
                   ret, last, saved, invoked, yielded, batch, arg, res>>

\* the first run calls download_image while it is below its target
download_step ==
    /\ caller = "two_runs"
    /\ ~is_target_reached(existing_count, downloaded_count, min_images)
    /\ \E c \in RaceCandidates :
          LET r == download_image(c, dir, existing_count, downloaded_count)
          IN  /\ dir' = r.dir
              /\ downloaded_count' = IF r.ok THEN downloaded_count + 1
                                     ELSE downloaded_count
              /\ saved' = IF r.ok THEN Append(saved, r.final) ELSE saved
              /\ last' = [called |-> TRUE, cand |-> c, ok |-> r.ok, final |-> r.final]
    /\ UNCHANGED <<caller, min_images, existing_count, latin_name, pc, src,
                   validLeft, invalidLeft, images_collected, ret, invoked,
                   yielded, batch, arg, res, peer>>

\* the second run calls download_image while it is below its target
peer_download_step ==
    /\ caller = "two_runs"
    /\ peer.built
    /\ ~is_target_reached(peer.existing_count, peer.downloaded_count, min_images)
    /\ \E c \in RaceCandidates :
          LET r == download_image(c, dir, peer.existing_count, peer.downloaded_count)
          IN  /\ dir' = r.dir
              /\ peer' = [peer EXCEPT
                            !.downloaded_count = IF r.ok THEN @ + 1 ELSE @,
                            !.saved = IF r.ok THEN Append(@, r.final) ELSE @]
              /\ last' = [called |-> TRUE, cand |-> c, ok |-> r.ok, final |-> r.final]
    /\ UNCHANGED <<caller, min_images, existing_count, downloaded_count,
                   latin_name, pc, src, validLeft, invalidLeft, images_collected,
                   ret, saved, invoked, yielded, batch, arg, res>>

\* the first scraper is built; the second is built at any time after
InitRace ==
    /\ caller = "two_runs"
    /\ latin_name = "unset"
    /\ batch = NoBatch
    /\ arg = <<>>
    /\ res = <<>>
    /\ peer = NoPeer
    /\ \E d \in InitialDirs, N \in 0..MaxTarget : Constructed(d, N)

NextRace == peer_init \/ download_step \/ peer_download_step

SpecRace == InitRace /\ [][NextRace]_vars

\* ---------------------------------------------------------- scrape_species
\* scrape_species up to its loop: the names are parsed from the nama_latin
\* field, and a row without any name gives a FAILED result at once
scrape_species_begin ==
    /\ pc = "row"
    /\ caller = "scrape_species"
    /\ IF batch.names = 0
       THEN /\ pc' = "result"
            /\ batch' = [batch EXCEPT !.status = "FAILED"]
       ELSE /\ pc' = "names"
            /\ batch' = batch
    /\ UNCHANGED <<peer, caller, dir, min_images, existing_count, downloaded_count,
                   latin_name, src, validLeft, invalidLeft, images_collected, ret,
                   last, saved, invoked, yielded, arg, res>>

\* "for latin in latin_names": a scraper is built for the next name with the
\* target min_images - total_downloaded; after the last name the partial
\* result is returned
scrape_species_loop ==
    /\ pc = "names"
    /\ caller = "scrape_species"
    /\ IF batch.attempts < batch.names
       THEN /\ batch' = [batch EXCEPT !.attempts = @ + 1]
            /\ min_images' = batch.target - batch.total_downloaded
            /\ existing_count' = count_existing_images(dir)
            /\ downloaded_count' = 0
            /\ pc' = "ready"
            /\ src' = 1
            /\ validLeft' = 0
            /\ invalidLeft' = 0
            /\ images_collected' = 0
            /\ saved' = <<>>
            /\ invoked' = <<>>
            /\ yielded' = <<>>
       ELSE /\ batch' = [batch EXCEPT !.status =
                            IF batch.total_downloaded > 0 THEN "PARTIAL" ELSE "FAILED"]
            /\ pc' = "result"
            /\ UNCHANGED <<min_images, existing_count, downloaded_count, src,
                           validLeft, invalidLeft, images_collected, saved, invoked,
                           yielded>>
    /\ UNCHANGED <<peer, caller, dir, latin_name, ret, last, arg, res>>

\* run_scraping has returned: its value is added to total_downloaded; at or
\* above the target the SUCCESS result is built, whose success_rate divides by
\* min_images (a ZeroDivisionError there is caught and the loop continues)
scrape_species_after_run ==
    /\ pc = "returned"
    /\ caller = "scrape_species"
    /\ LET total == batch.total_downloaded + ret
       IN  IF total >= batch.target /\ batch.target # 0
           THEN /\ batch' = [batch EXCEPT !.total_downloaded = total,
                                          !.status = "SUCCESS"]
                /\ pc' = "result"
           ELSE /\ batch' = [batch EXCEPT !.total_downloaded = total]
                /\ pc' = "names"
    /\ UNCHANGED <<peer, caller, dir, min_images, existing_count, downloaded_count,
                   latin_name, src, validLeft, invalidLeft, images_collected, ret,
                   last, saved, invoked, yielded, arg, res>>

\* scrape_species on one catalog row, for a BatchFishScraper with
\* images_per_species = target
InitBatch ==
    /\ caller = "scrape_species"
    /\ latin_name = "unset"
    /\ pc = "row"
    /\ \E d \in InitialDirs, T \in 0..MaxTarget, n \in 0..MaxNames :
          /\ dir = d
          /\ batch = [target |-> T, names |-> n, attempts |-> 0,
                      total_downloaded |-> 0, status |-> "NONE"]
    /\ arg = <<>>
    /\ res = <<>>
    /\ peer = NoPeer
    /\ min_images = 0
    /\ existing_count = 0
    /\ downloaded_count = 0
    /\ src = 1
    /\ validLeft = 0
    /\ invalidLeft = 0
    /\ images_collected = 0
    /\ ret = 0
    /\ last = NoCall
    /\ saved = <<>>
    /\ invoked = <<>>
    /\ yielded = <<>>

NextBatch ==
    \/ scrape_species_begin
    \/ scrape_species_loop
    \/ scrape_species_after_run
    \/ run_scraping_begin
    \/ run_scraping_loop
    \/ source_step
    \/ source_return

SpecBatch == InitBatch /\ [][NextBatch]_vars

\* ------------------------------------------------- failures and interrupts
\* mutant: scrape_wikimedia lets its failure out
SourceCatches_wikimedia_escapes(name) == name # "wikimedia"

\* Every source routine of the lists has its body in "try: ... except
\* Exception" (scrape_bing_images around each page, of which a small target
\* has one); the driver lookup of scrape_google_images returns None instead of
\* raising.  driver.quit() in its finally clause is taken not to raise.
SourceCatches(name) ==
    name \in {RunScrapers[i] : i \in DOMAIN RunScrapers}
             \cup {TestScrapers[i] : i \in DOMAIN TestScrapers}

\* A request or a parse step of the current source routine raises: the
\* routine's except clause logs it and the routine is over, and
\* scrape_google_images skips the line that adds images_collected.  A failure
\* no routine catches would leave run_scraping, which has no try of its own.
source_fails ==
    /\ pc = "source"
    /\ src <= MaxFailing
    /\ caller \in {"run_scraping", "scrape_species"}
    /\ pc' = IF SourceCatches(Scrapers[src]) THEN "caught" ELSE "failed"
    /\ src' = src + 1
    /\ validLeft' = 0
    /\ invalidLeft' = 0
    /\ UNCHANGED <<peer, caller, dir, min_images, existing_count, downloaded_count,
                   latin_name, images_collected, ret, last, saved, invoked, yielded,
                   batch, arg, res>>

\* single_species_mode on a directory that is new or holds one image, with
\* source routines that may fail
InitFail == Init /\ DOMAIN dir \subseteq {SpName(1, "jpg")}

NextFail == Next \/ source_fails

SpecFail == InitFail /\ [][NextFail]_vars

\* where a KeyboardInterrupt can reach the program during a run
InterruptPoints ==
    {"between_calls", "is_valid_image_url", "temp_written", "final_written"}

\* The directory a KeyboardInterrupt leaves behind: download_image catches
\* Exception only, so past line 151 the temp file stays, and past the save of
\* the final file that file stays too.
InterruptedDir(point, d, E, D) ==
    CASE point = "temp_written" -> Put(d, TempName(GoodCandidate), "partial")
      [] point = "final_written" ->
            Put(Put(d, TempName(GoodCandidate), "new"),
                SpName(FileNumber(E, D), FinalExt(GoodCandidate)), "new")
      [] OTHER -> d

\* The user presses Ctrl-C during a run.  Inside is_valid_image_url the bare
\* "except:" swallows it: the candidate is dropped and the run goes on.
\* Anywhere else it leaves run_scraping; single_species_mode catches it and
\* prints its notice, the batch modes have no handler for it.
interrupt ==
    /\ caller \in {"run_scraping", "scrape_species"}
    /\ pc \in {"ready", "loop", "caught", "source"}
    /\ \E point \in InterruptPoints :
          /\ point # "between_calls" =>
                /\ pc = "source"
                /\ validLeft + invalidLeft > 0
                /\ ~SourceStops(Scrapers[src], existing_count, downloaded_count,
                                min_images, images_collected)
          /\ dir' = InterruptedDir(point, dir, existing_count, downloaded_count)
          /\ IF point = "is_valid_image_url"
             THEN /\ pc' = pc
                  /\ src <= MaxFailing
                  /\ \/ validLeft > 0 /\ validLeft' = validLeft - 1
                        /\ invalidLeft' = invalidLeft
                     \/ invalidLeft > 0 /\ invalidLeft' = invalidLeft - 1
                        /\ validLeft' = validLeft
             ELSE /\ pc' = IF caller = "run_scraping" THEN "cancelled" ELSE "uncaught"
                  /\ UNCHANGED <<validLeft, invalidLeft>>
    /\ UNCHANGED <<peer, caller, min_images, existing_count, downloaded_count, latin_name,
                   src, images_collected, ret, last, saved, invoked, yielded, batch,
                   arg, res>>

\* the command line: "single" builds one scraper and runs it, "batch" runs
\* scrape_species on the rows of the catalog, each in its own new directory
InitCli ==
    \/ Init
    \/ /\ InitBatch
       /\ dir = <<>>
       /\ batch.names >= 1

NextCli == NextBatch \/ interrupt

SpecCli == InitCli /\ [][NextCli]_vars

\* ------------------------------------------------------------------ strings
\* A string is a sequence of one-character strings; a missing value (NaN) is
\* the one-element sequence <<"nan">>, which is no string.
NaN == <<"nan">>

Whitespace == {" "}

RECURSIVE LStrip(_)
LStrip(s) == IF s # <<>> /\ Head(s) \in Whitespace THEN LStrip(Tail(s)) ELSE s

RECURSIVE RStrip(_)
RStrip(s) ==
    IF s # <<>> /\ s[Len(s)] \in Whitespace THEN RStrip(SubSeq(s, 1, Len(s) - 1)) ELSE s

\* str.strip()
Strip(s) == RStrip(LStrip(s))

StartsWith(s, sep) == Len(s) >= Len(sep) /\ SubSeq(s, 1, Len(sep)) = sep

RECURSIVE SplitFrom(_, _, _)
SplitFrom(s, sep, cur) ==
    IF s = <<>> THEN <<cur>>
    ELSE IF StartsWith(s, sep)
         THEN <<cur>> \o SplitFrom(SubSeq(s, Len(sep) + 1, Len(s)), sep, <<>>)
         ELSE SplitFrom(Tail(s), sep, Append(cur, Head(s)))

\* str.split(sep)
Split(s, sep) == SplitFrom(s, sep, <<>>)

RECURSIVE Join(_, _)
\* sep.join(parts)
Join(parts, sep) ==
    IF parts = <<>> THEN <<>>
    ELSE IF Len(parts) = 1 THEN parts[1]
    ELSE parts[1] \o sep \o Join(Tail(parts), sep)

Semicolon == <<";">>
SpacedSemicolon == <<" ", ";", " ">>

Range(q) == {q[i] : i \in 1..Len(q)}

MapStrip(parts) == [i \in 1..Len(parts) |-> Strip(parts[i])]

RECURSIVE UniqueFrom(_, _)
UniqueFrom(names, acc) ==
    IF names = <<>> THEN acc
    ELSE IF Head(names) # <<>> /\ Head(names) \notin Range(acc)
         THEN UniqueFrom(Tail(names), Append(acc, Head(names)))
         ELSE UniqueFrom(Tail(names), acc)

RECURSIVE NonEmptyFrom(_, _)
NonEmptyFrom(names, acc) ==
    IF names = <<>> THEN acc
    ELSE IF Head(names) # <<>>
         THEN NonEmptyFrom(Tail(names), Append(acc, Head(names)))
         ELSE NonEmptyFrom(Tail(names), acc)

\* mutant: empty names are dropped but repeated names are kept
UniqueNames_keep_repeats(names) == NonEmptyFrom(names, <<>>)

\* the loop "if name and name not in seen: unique_names.append(name)"
UniqueNames(names) == UniqueFrom(names, <<>>)

\* ---------------------------------------------------- normalize_latin_name
normalize_latin_name(x) ==
    IF x = NaN \/ x = <<>> THEN <<>>
    ELSE Join(UniqueNames(MapStrip(Split(x, Semicolon))), SpacedSemicolon)

\* the parts a scientific-name field is put together from in the inputs
NameParts ==
    {<<>>, <<" ">>, <<"A">>, <<" ", "A">>, <<"A", " ">>, <<" ", "A", " ">>,
     <<"B">>, <<" ", "B", " ">>, <<"A", " ", "B">>}

NormInputs ==
    {NaN} \cup {Join(ps, Semicolon) :
                   ps \in UNION {[1..n -> NameParts] : n \in 1..MaxParts}}

normalize_call ==
    /\ pc = "call"
    /\ caller = "normalize_latin_name"
    /\ res' = normalize_latin_name(arg)
    /\ pc' = "returned"
    /\ UNCHANGED <<peer, caller, dir, min_images, existing_count, downloaded_count,
                   latin_name, src, validLeft, invalidLeft, images_collected, ret,
                   last, saved, invoked, yielded, batch, arg>>

\* no scraper takes part in the reconciliation scripts
NoScraper ==
    /\ latin_name = "unset"
    /\ dir = <<>>
    /\ batch = NoBatch
    /\ min_images = 0
    /\ existing_count = 0
    /\ downloaded_count = 0
    /\ src = 1
    /\ validLeft = 0
    /\ invalidLeft = 0
    /\ images_collected = 0
    /\ ret = 0
    /\ last = NoCall
    /\ saved = <<>>
    /\ invoked = <<>>
    /\ yielded = <<>>

InitNorm ==
    /\ caller = "normalize_latin_name"
    /\ pc = "call"
    /\ arg \in NormInputs
    /\ res = <<>>
    /\ peer = NoPeer
    /\ NoScraper

NextNorm == normalize_call

SpecNorm == InitNorm /\ [][NextNorm]_vars

\* ------------------------------------------------------------ the catalog
\* A catalog (DataFrame) is a sequence of rows; a row has the columns
\* species_indonesia, nama_latin, min_images and jenis_perairan (one of the
\* categorical columns, which are all merged alike).  A missing number is
\* NoNumber, a missing string is NaN.
NoNumber == -1

notna(v) == v # NaN /\ v # NoNumber

CharRank == [ch \in {" ", ";", "A", "B", "C", "P", "Q", "X", "Y", "n", "a"} |->
    CASE ch = " " -> 32 [] ch = ";" -> 59 [] ch = "A" -> 65 [] ch = "B" -> 66
      [] ch = "C" -> 67 [] ch = "P" -> 80 [] ch = "Q" -> 81 [] ch = "X" -> 88
      [] ch = "Y" -> 89 [] ch = "a" -> 97 [] ch = "n" -> 110]

RECURSIVE StrLess(_, _)
\* s < t for Python strings
StrLess(s, t) ==
    IF t = <<>> THEN FALSE
    ELSE IF s = <<>> THEN TRUE
    ELSE IF Head(s) = Head(t) THEN StrLess(Tail(s), Tail(t))
    ELSE CharRank[Head(s)] < CharRank[Head(t)]

RECURSIVE Sorted(_)
\* sorted(S) for a set of strings
Sorted(S) ==
    IF S = {} THEN <<>>
    ELSE LET least == CHOOSE x \in S : \A y \in S \ {x} : StrLess(x, y)
         IN  <<least>> \o Sorted(S \ {least})

RECURSIVE SelectRows(_, _)
SelectRows(df, key) ==
    IF df = <<>> THEN <<>>
    ELSE IF Head(df).species_indonesia = key
         THEN <<Head(df)>> \o SelectRows(Tail(df), key)
         ELSE SelectRows(Tail(df), key)

\* df.groupby('species_indonesia'): the groups in sorted key order, rows with
\* a missing key in no group
GroupKeys(df) ==
    Sorted({df[i].species_indonesia : i \in 1..Len(df)} \ {NaN})

\* the names of one row: str(row['nama_latin']).split(' ; '), each stripped,
\* the empty ones dropped; none when the field is missing
RowLatinNames(row) ==
    IF row.nama_latin = NaN THEN <<>>
    ELSE NonEmptyFrom(MapStrip(Split(row.nama_latin, SpacedSemicolon)), <<>>)

\* mutant: only the first row of the group is read
GroupLatinNames_first_row_only(group) ==
    IF group = <<>> THEN <<>> ELSE RowLatinNames(Head(group))

RECURSIVE GroupLatinNames(_)
\* "for _, row in group.iterrows(): ... for name in latin_names": the names of
\* the rows of a group, in row order
GroupLatinNames(group) ==
    IF group = <<>> THEN <<>>
    ELSE RowLatinNames(Head(group)) \o GroupLatinNames(Tail(group))

\* the values of a categorical column that are present and not blank
GroupValues(group) ==
    LET keep == {i \in 1..Len(group) :
                    group[i].jenis_perairan # NaN /\ Strip(group[i].jenis_perairan) # <<>>}
        Nth(k) == CHOOSE i \in keep : Cardinality({j \in keep : j < i}) = k - 1
    IN  [k \in 1..Cardinality(keep) |-> Strip(group[Nth(k)].jenis_perairan)]

Count(q, v) == Cardinality({i \in 1..Len(q) : q[i] = v})

\* mutant: among equally frequent values the one counted last
MostCommon_last_seen(q) ==
    LET best == CHOOSE i \in 1..Len(q) :
                   /\ \A j \in 1..Len(q) : Count(q, q[j]) <= Count(q, q[i])
                   /\ \A j \in (i + 1)..Len(q) : Count(q, q[j]) < Count(q, q[i])
    IN  q[best]

\* Counter(values).most_common(1)[0][0]: the most frequent value, the one
\* counted first among equally frequent ones
MostCommon(q) ==
    LET best == CHOOSE i \in 1..Len(q) :
                   /\ \A j \in 1..Len(q) : Count(q, q[j]) <= Count(q, q[i])
                   /\ \A j \in 1..(i - 1) : Count(q, q[j]) < Count(q, q[i])
    IN  q[best]

MergedCategory(group) ==
    IF GroupValues(group) = <<>> THEN group[1].jenis_perairan
    ELSE MostCommon(GroupValues(group))

\* max(min_images_values) over the rows where min_images is present
MaxMinImages(group) ==
    LET values == {group[i].min_images : i \in 1..Len(group)} \ {NoNumber}
    IN  IF values = {} THEN group[1].min_images ELSE SetMax(values)

\* the merged row final_cleanup builds for a group of several rows
final_cleanup_merge(group) ==
    [species_indonesia |-> group[1].species_indonesia,
     nama_latin |-> Join(Sorted(Range(GroupLatinNames(group))), SpacedSemicolon),
     jenis_perairan |-> MergedCategory(group),
     min_images |-> MaxMinImages(group)]

\* the merged row clean_duplicates builds for a group of several rows
clean_duplicates_merge(group) ==
    [species_indonesia |-> group[1].species_indonesia,
     nama_latin |-> Join(UniqueFrom(GroupLatinNames(group), <<>>), SpacedSemicolon),
     jenis_perairan |-> MergedCategory(group),
     min_images |-> group[1].min_images]

\* mutant: the rows are passed on as they are, no group is merged
CleanedRows_unmerged(df, routine) == df

\* the loop over species_groups, alike in both routines: a group of one row
\* is kept as it is, a larger group is merged as the routine merges
CleanedRows(df, routine) ==
    LET keys == GroupKeys(df)
    IN  [k \in 1..Len(keys) |->
            LET group == SelectRows(df, keys[k])
            IN  IF Len(group) = 1 THEN group[1]
                ELSE IF routine = "final_cleanup" THEN final_cleanup_merge(group)
                ELSE clean_duplicates_merge(group)]

\* a name is listed more than once in the catalog (in one row or in several)
HasDuplicatedLatin(df) ==
    \E n \in Range(GroupLatinNames(df)) : Count(GroupLatinNames(df), n) > 1

\* final_cleanup up to cleaned_df: the catalog is returned as it is when no
\* species and no name is duplicated; rows whose nama_latin is blank list no
\* name
final_cleanup(df) ==
    LET listed == SelectSeq(df, LAMBDA r : r.nama_latin # NaN /\ Strip(r.nama_latin) # <<>>)
        duplicate_species == \E key \in Range(GroupKeys(df)) : Len(SelectRows(df, key)) > 1
    IN  IF ~duplicate_species /\ ~HasDuplicatedLatin(listed) THEN df
        ELSE CleanedRows(df, "final_cleanup")

\* cleaned_df is pd.DataFrame(cleaned_rows); built from no row it has no
\* column, and the final duplicate check raises KeyError on
\* cleaned_df['species_indonesia']
final_cleanup_raises(df) == final_cleanup(df) = <<>>

\* str(row['species_indonesia']).strip(), where a missing value reads "nan"
SpeciesText(row) ==
    IF row.species_indonesia = NaN THEN <<"n", "a", "n">>
    ELSE Strip(row.species_indonesia)

\* fix_fish_scraping from its duplicate checks on: clean_duplicates is called
\* when a name or a species text is duplicated
fix_fish_scraping(df) ==
    LET duplicate_species ==
            \E i, j \in 1..Len(df) : i # j /\ SpeciesText(df[i]) = SpeciesText(df[j])
    IN  IF HasDuplicatedLatin(df) \/ duplicate_species
        THEN CleanedRows(df, "clean_duplicates")
        ELSE df

\* ------------------------------------------------------------ the catalogs
BaseRow ==
    [species_indonesia |-> <<"X">>, nama_latin |-> <<"A", " ", ";", " ", "B">>,
     jenis_perairan |-> <<"P">>, min_images |-> 1]

LatinFields ==
    {NaN, <<" ">>, <<"A">>, <<"B", " ", ";", " ", "C">>, <<"B", " ", ";", " ", "A">>,
     <<"A", ";", "C">>}

CatalogRows ==
    {[BaseRow EXCEPT !.nama_latin = x] : x \in LatinFields}
    \cup {[BaseRow EXCEPT !.min_images = n] : n \in {NoNumber, 2, 3}}
    \cup {[BaseRow EXCEPT !.jenis_perairan = v] : v \in {NaN, <<" ">>, <<"Q">>}}
    \cup {[BaseRow EXCEPT !.species_indonesia = <<"Y">>],
          [BaseRow EXCEPT !.species_indonesia = <<"Y">>, !.nama_latin = <<"C">>],
          [BaseRow EXCEPT !.species_indonesia = NaN, !.nama_latin = <<"C">>]}

Catalogs == UNION {[1..n -> CatalogRows] : n \in 1..MaxRows}

final_cleanup_call ==
    /\ pc = "call"
    /\ caller = "final_cleanup"
    /\ res' = final_cleanup(arg)
    /\ pc' = IF final_cleanup_raises(arg) THEN "raised" ELSE "returned"
    /\ UNCHANGED <<peer, caller, dir, min_images, existing_count, downloaded_count,
                   latin_name, src, validLeft, invalidLeft, images_collected, ret,
                   last, saved, invoked, yielded, batch, arg>>

fix_fish_scraping_call ==
    /\ pc = "call"
    /\ caller = "fix_fish_scraping"
    /\ res' = fix_fish_scraping(arg)
    /\ pc' = "returned"
    /\ UNCHANGED <<peer, caller, dir, min_images, existing_count, downloaded_count,
                   latin_name, src, validLeft, invalidLeft, images_collected, ret,
                   last, saved, invoked, yielded, batch, arg>>

InitMerge ==
    /\ caller \in {"final_cleanup", "fix_fish_scraping"}
    /\ pc = "call"
    /\ arg \in Catalogs
    /\ res = <<>>
    /\ peer = NoPeer
    /\ NoScraper

NextMerge == final_cleanup_call \/ fix_fish_scraping_call

SpecMerge == InitMerge /\ [][NextMerge]_vars

\* ------------------------------------------------------ run_batch_scraping
\* The catalog file is the sequence of its rows' prioritas values; a row is
\* named by its 0-indexed place in the file.  max_species is NoNumber and
\* priority_filter is "none" when the flag is not given (None).
Priorities == {"HIGH", "LOW"}

Statuses == {"SUCCESS", "PARTIAL", "FAILED"}

\* df[df['prioritas'] == priority_filter], applied "if priority_filter"
FilteredRows(csv, priority_filter) ==
    LET keep == {r \in 0..(Len(csv) - 1) :
                    priority_filter = "none" \/ csv[r + 1] = priority_filter}
        Nth(k) == CHOOSE r \in keep : Cardinality({q \in keep : q < r}) = k - 1
    IN  [k \in 1..Cardinality(keep) |-> Nth(k)]

\* df.iloc[a:b]
Iloc(df, a, b) == SubSeq(df, a + 1, Min2(b, Len(df)))

\* "if max_species: df.iloc[start_index:start_index + max_species]
\*  else: df.iloc[start_index:]"; None and 0 are both false
SelectedRows(csv, start_index, max_species, priority_filter) ==
    LET df == FilteredRows(csv, priority_filter)
    IN  IF max_species # NoNumber /\ max_species # 0
        THEN Iloc(df, start_index, start_index + max_species)
        ELSE Iloc(df, start_index, Len(df))

\* one pass of "for idx, (_, row) in enumerate(df.iterrows(), 1)":
\* scrape_species(row) returns a result with one of its three statuses, which
\* is appended to self.results
run_batch_scraping_row ==
    /\ pc = "rows"
    /\ caller = "run_batch_scraping"
    /\ LET df == SelectedRows(arg.csv, arg.start_index, arg.max_species,
                              arg.priority_filter)
       IN  /\ Len(res) < Len(df)
           /\ \E st \in Statuses :
                 res' = Append(res, [row |-> df[Len(res) + 1], status |-> st])
    /\ UNCHANGED <<peer, caller, dir, min_images, existing_count, downloaded_count,
                   latin_name, pc, src, validLeft, invalidLeft, images_collected,
                   ret, last, saved, invoked, yielded, batch, arg>>

\* generate_final_report divides the status counts by len(self.results) and
\* the downloaded images by the sum of the results' target_images before it
\* writes the report file; scrape_species puts self.images_per_species into
\* every result as its target_images
generate_final_report_raises(results, images_per_species) ==
    LET total == Len(results)
        target_images == Len(results) * images_per_species
    IN  total = 0 \/ target_images = 0

\* the loop is over: generate_final_report, whose ZeroDivisionError nothing
\* in run_batch_scraping catches, and return
run_batch_scraping_end ==
    /\ pc = "rows"
    /\ caller = "run_batch_scraping"
    /\ Len(res) = Len(SelectedRows(arg.csv, arg.start_index, arg.max_species,
                                   arg.priority_filter))
    /\ pc' = IF generate_final_report_raises(res, arg.images_per_species)
             THEN "raised" ELSE "returned"
    /\ UNCHANGED <<peer, caller, dir, min_images, existing_count, downloaded_count,
                   latin_name, src, validLeft, invalidLeft, images_collected,
                   ret, last, saved, invoked, yielded, batch, arg, res>>

\* batch_scraping_mode: the flags --start-row, --max-species and --priority,
\* and the target per species the BatchFishScraper is built with
InitRows ==
    /\ caller = "run_batch_scraping"
    /\ pc = "rows"
    /\ arg \in [csv : UNION {[1..n -> Priorities] : n \in 1..MaxRows},
                start_index : 0..MaxRows,
                max_species : {NoNumber} \cup 0..MaxRows,
                priority_filter : {"none", "HIGH"},
                images_per_species : 0..MaxTarget]
    /\ res = <<>>
    /\ peer = NoPeer
    /\ NoScraper

NextRows == run_batch_scraping_row \/ run_batch_scraping_end

SpecRows == InitRows /\ [][NextRows]_vars

\* ================================================================ claims
Last(q) == q[Len(q)]

\* the final (sequentially named) files of a directory
FinalFiles(d) == {f \in DOMAIN d : f[1] = "sp"}

\* the files that were in the directory before the scraper was built and
\* still hold what they held then
OldFiles(d) == {f \in DOMAIN d : d[f] = "old"}

\* C1: a scraper built with existing_count >= min_images invokes no source
\* routine, downloads nothing, and run_scraping returns existing_count.
C1_TargetAlreadyMet ==
    existing_count >= min_images =>
        /\ invoked = <<>>
        /\ saved = <<>>
        /\ downloaded_count = 0
        /\ pc \in {"ready", "returned"}
        /\ pc = "returned" => ret = existing_count

C1_Witness ==
    /\ pc = "returned"
    /\ existing_count >= min_images
    /\ existing_count = 2
    /\ ret = 2

\* C2: with no pre-existing image, when the first two sources have no
\* acceptable candidate and the third has at least min_images of them,
\* run_scraping ends with downloaded_count = min_images and never invokes a
\* fourth source.
C2_Hypothesis ==
    /\ existing_count = 0
    /\ Len(yielded) >= 3
    /\ yielded[1] = 0
    /\ yielded[2] = 0
    /\ yielded[3] >= min_images

C2_ThirdSourceSuffices ==
    C2_Hypothesis =>
        /\ Len(invoked) = 3
        /\ downloaded_count <= min_images
        /\ pc = "returned" => downloaded_count = min_images /\ ret = min_images

C2_Witness ==
    /\ C2_Hypothesis
    /\ pc = "returned"
    /\ min_images = 2
    /\ yielded[3] >= 2
    /\ invoked = <<"wikimedia", "wikipedia", "bing">>

\* C4 (as claimed): in a directory that held exactly the images numbered
\* 1..E, the k-th image saved is written under the number E + k.
C4_SequentialNumbers ==
    OldFiles(dir) = {SpName(n, "jpg") : n \in 1..existing_count} =>
        \A k \in 1..Len(saved) : saved[k][2] = existing_count + k

\* C5 (as claimed): every newly saved image gets one more than the largest
\* sequence number among the image files already in the directory, and no
\* file that was already there is replaced.
C5_RunningMaximum ==
    [][/\ (saved' # saved => Last(saved')[2] = get_next_file_number(dir))
       /\ \A f \in OldFiles(dir) : f \in OldFiles(dir')]_vars

\* C6: download_image on a candidate narrower or lower than 150 pixels returns
\* False, writes no final file and leaves downloaded_count as it was.
C6_SmallRejected ==
    [][(last'.called /\ (last'.cand.width < 150 \/ last'.cand.height < 150)) =>
          /\ ~last'.ok
          /\ last'.final = NoFile
          /\ saved' = saved
          /\ downloaded_count' = downloaded_count
          /\ FinalFiles(dir') = FinalFiles(dir)
          /\ \A f \in FinalFiles(dir) : dir'[f] = dir[f]]_vars

C6_Witness ==
    /\ last.called
    /\ last.cand.width = 100
    /\ last.cand.height = 100
    /\ ~last.ok
    /\ downloaded_count = 1

\* C7: a candidate with both sides >= 150 whose longer side is more than 5
\* times the shorter one is rejected; one with ratio exactly 5 that passes every
\* other stage is accepted.
C7_AspectRatio ==
    LET c == last.cand
        long == Max2(c.width, c.height)
        short == Min2(c.width, c.height)
    IN  (last.called /\ short >= 150) =>
            /\ long > 5 * short => ~last.ok /\ last.final = NoFile
            /\ (/\ long = 5 * short
                /\ c.fetch_ok /\ c.temp = "ok" /\ c.decode_ok /\ c.save_ok
                /\ c.content_type[1] \in AllowedTypes) => last.ok

C7_Witness ==
    /\ last.called
    /\ last.cand.width = 900
    /\ last.cand.height = 150
    /\ ~last.ok

\* the images of the directory are numbered 1, 2, ... without a gap and
\* nothing else is in it (then none of them was written over another)
Contiguous(d) ==
    \A f \in DOMAIN d : f[1] = "sp" /\ f[3] = "jpg" /\ f[2] <= Cardinality(DOMAIN d)

\* C3 (as claimed): for a species with several names and a positive target,
\* scrape_species reports SUCCESS only when the images of the species have
\* reached the target, tries every name before it reports less, and then
\* reports PARTIAL when the species has images and FAILED when it has none.
C3_NameFallback ==
    (pc = "result" /\ batch.names >= 2 /\ batch.target >= 1 /\ Contiguous(dir)) =>
        /\ batch.status = "SUCCESS" =>
              count_existing_images(dir) >= batch.target
        /\ batch.status \in {"PARTIAL", "FAILED"} =>
              /\ batch.attempts = batch.names
              /\ count_existing_images(dir) < batch.target
              /\ batch.status = "PARTIAL" <=> count_existing_images(dir) > 0

\* the non-empty names of a scientific-name field, in the order written
FieldNames(x, sep) ==
    IF x = NaN \/ x = <<>> THEN <<>>
    ELSE LET parts == MapStrip(Split(x, sep))
             keep == {i \in 1..Len(parts) : parts[i] # <<>>}
             Nth(k) == CHOOSE i \in keep : Cardinality({j \in keep : j < i}) = k - 1
         IN  [k \in 1..Cardinality(keep) |-> parts[Nth(k)]]

\* q without the repetitions of an element that came earlier
FirstOccurrences(q) ==
    LET keep == {i \in 1..Len(q) : \A j \in 1..(i - 1) : q[j] # q[i]}
        Nth(k) == CHOOSE i \in keep : Cardinality({j \in keep : j < i}) = k - 1
    IN  [k \in 1..Cardinality(keep) |-> q[Nth(k)]]

\* C8: normalize_latin_name is idempotent, and its result lists each distinct
\* non-empty name of the input once, in the order of first occurrence.
C8_NormalizeIdempotent ==
    (caller = "normalize_latin_name" /\ pc = "returned") =>
        /\ normalize_latin_name(res) = res
        /\ FieldNames(res, SpacedSemicolon) = FirstOccurrences(FieldNames(arg, Semicolon))
        /\ res = Join(FieldNames(res, SpacedSemicolon), SpacedSemicolon)

C8_Witness ==
    /\ caller = "normalize_latin_name"
    /\ pc = "returned"
    /\ arg = <<"A", " ", ";", " ", "B", " ", ";", " ", "A">>
    /\ res = <<"A", " ", ";", " ", "B">>

\* the scientific names a row lists, as a set
NameSet(row) == Range(FieldNames(row.nama_latin, Semicolon))

\* the rows of the output that came out of a merge: their species had
\* several rows in the input
MergedSpecies(df) ==
    {key \in Range(GroupKeys(df)) : Len(SelectRows(df, key)) > 1}

\* C9: the merged row of a species lists exactly the scientific names that
\* the merged rows list between them.
C9_NamesUnioned ==
    (caller \in {"final_cleanup", "fix_fish_scraping"} /\ pc = "returned") =>
        \A key \in MergedSpecies(arg) :
            /\ Len(SelectRows(res, key)) = 1
            /\ NameSet(SelectRows(res, key)[1]) =
                  UNION {NameSet(r) : r \in Range(SelectRows(arg, key))}

C9_Witness ==
    /\ caller = "fix_fish_scraping"
    /\ pc = "returned"
    /\ Len(arg) = 2
    /\ arg[1].nama_latin = <<"A", " ", ";", " ", "B">>
    /\ arg[2].nama_latin = <<"B", " ", ";", " ", "C">>
    /\ arg[1].species_indonesia = arg[2].species_indonesia
    /\ Len(res) = 1
    /\ NameSet(res[1]) = {<<"A">>, <<"B">>, <<"C">>}

\* C10 (as claimed): in final_cleanup and in clean_duplicates the merged row's
\* min_images is the largest min_images of the merged rows.
C10_MaxTarget ==
    (caller \in {"final_cleanup", "fix_fish_scraping"} /\ pc = "returned") =>
        \A key \in MergedSpecies(arg) :
            \A r \in Range(SelectRows(arg, key)) :
                r.min_images # NoNumber =>
                    /\ SelectRows(res, key)[1].min_images # NoNumber
                    /\ SelectRows(res, key)[1].min_images >= r.min_images

\* C11: in the catalog a reconciliation routine returns, no local name is
\* the local name of two rows.
C11_UniqueLocalNames ==
    (caller \in {"final_cleanup", "fix_fish_scraping"} /\ pc = "returned") =>
        \A i, j \in 1..Len(res) :
            (i # j /\ res[i].species_indonesia # NaN) =>
                res[i].species_indonesia # res[j].species_indonesia

C11_Witness ==
    /\ caller = "final_cleanup"
    /\ pc = "returned"
    /\ Len(arg) = 3
    /\ arg[1].species_indonesia = <<"X">>
    /\ arg[2].species_indonesia = <<"Y">>
    /\ arg[3].species_indonesia = <<"X">>
    /\ Len(res) = 2

\* C12 (as claimed): in the catalog a reconciliation routine returns, no
\* scientific name is listed by two rows with different local names.
C12_NameInOneRecord ==
    (caller \in {"final_cleanup", "fix_fish_scraping"} /\ pc = "returned") =>
        \A i, j \in 1..Len(res) :
            res[i].species_indonesia # res[j].species_indonesia =>
                Range(RowLatinNames(res[i])) \cap Range(RowLatinNames(res[j])) = {}

\* the first place of v in q
FirstIndex(q, v) == CHOOSE i \in 1..Len(q) : q[i] = v /\ \A j \in 1..(i - 1) : q[j] # v

C14_FirstOccurrenceOrder ==
    (caller \in {"final_cleanup", "fix_fish_scraping"} /\ pc = "returned") =>
        \A k \in 1..Len(res) :
            res[k].species_indonesia # NaN =>
                RowLatinNames(res[k]) =
                    FirstOccurrences(GroupLatinNames(
                        SelectRows(arg, res[k].species_indonesia)))

\* C15 (as claimed): when a run has stopped, at its normal end or on an
\* interrupt, and has overwritten none of the E images it found, the directory
\* holds E + k images for the next scraper to count, k being the downloads
\* completed.
C15_ProgressPickedUp ==
    (/\ caller = "run_scraping"
     /\ pc \in {"returned", "cancelled"}
     /\ Cardinality(OldFiles(dir)) = existing_count) =>
        count_existing_images(dir) = existing_count + Len(saved)

\* C16 (as claimed): a KeyboardInterrupt during a run ends the program at the
\* top-level handler with its notice, and every file of the directory stays.
C16_InterruptCaught ==
    [][interrupt =>
          /\ pc' = "cancelled"
          /\ \A f \in DOMAIN dir : f \in DOMAIN dir' /\ dir'[f] = dir[f]]_vars

\* C17: a failure of a source routine is caught inside the routine; from
\* there run_scraping calls the next routine of its list while the target is
\* unmet, and otherwise returns its total; it never returns below the target
\* without having called every routine.
C17_FailureContained ==
    [][/\ source_fails => pc' = "caught"
       /\ pc = "caught" =>
             IF src <= Len(RunScrapers)
                /\ ~is_target_reached(existing_count, downloaded_count, min_images)
             THEN pc' = "source" /\ invoked' = Append(invoked, RunScrapers[src])
             ELSE pc' = "returned"
                  /\ ret' = get_total_images(existing_count, downloaded_count)
       /\ (pc' = "returned"
           /\ ~is_target_reached(existing_count', downloaded_count', min_images'))
             => invoked' = RunScrapers]_vars

\* the first routine had an acceptable candidate and failed before it saved
\* one; the five others were called and the run returned
C17_Witness ==
    /\ caller = "run_scraping"
    /\ pc = "returned"
    /\ invoked = RunScrapers
    /\ yielded[1] > 0
    /\ downloaded_count = 0
    /\ last.called = FALSE
    /\ ret = existing_count

\* C18 (as claimed): a batch run processes at most max_species rows, none
\* from before row start_index of the file, in file order, and without a cap
\* every row from start_index on that passes the priority filter.
C18_RowSelection ==
    (caller = "run_batch_scraping" /\ pc = "returned") =>
        /\ arg.max_species # NoNumber => Len(res) <= arg.max_species
        /\ \A i \in 1..Len(res) : res[i].row >= arg.start_index
        /\ \A i, j \in 1..Len(res) : i < j => res[i].row < res[j].row
        /\ arg.max_species = NoNumber =>
              \A r \in 0..(Len(arg.csv) - 1) :
                  (/\ r >= arg.start_index
                   /\ arg.priority_filter \in {"none", arg.csv[r + 1]})
                      => \E i \in 1..Len(res) : res[i].row = r

\* C19 (as claimed): whenever a source routine has returned, downloaded_count
\* has grown by the number of files the routine saved, so that it equals the
\* number of files saved since the scraper was built.
C19_CounterMatchesFiles ==
    pc \in {"loop", "returned"} => downloaded_count = Len(saved)

\* C20 (as claimed): a run that starts below its target never has more images
\* than the target: no routine downloads once existing_count +
\* downloaded_count has reached min_images.
C20_NoOvershoot ==
    (caller = "run_scraping" /\ existing_count < min_images) =>
        existing_count + downloaded_count <= min_images

\* the order the claim gives
ClaimedOrder == <<"wikimedia", "wikipedia", "bing", "google", "flickr", "fishbase">>

C22_FailureDiscardsCandidate ==
    [][(source_step /\ ~Accepted(last'.cand)) =>
          /\ ~last'.ok
          /\ downloaded_count' = downloaded_count
          /\ saved' = saved
          /\ pc' = "source"
          /\ src' = src]_vars

\* after one image was saved the save of the next candidate's final file
\* failed, and the routine is in its loop with a candidate to go on with
C22_Witness ==
    /\ caller = "run_scraping"
    /\ pc = "source"
    /\ last.called
    /\ ~last.ok
    /\ ~last.cand.save_ok
    /\ downloaded_count = 1
    /\ Len(saved) = 1
    /\ validLeft > 0

\* C23 (as claimed): an accepted image is saved as .png exactly when it
\* arrived as PNG in a colour mode that carries transparency, and as .jpg
\* otherwise.
C23_PngKeptForTransparency ==
    (last.called /\ last.ok) =>
        /\ last.final[3] \in {"png", "jpg"}
        /\ (last.final[3] = "png") <=>
              /\ last.cand.content_type[1] = "image/png"
              /\ last.cand.format = "PNG"
              /\ last.cand.mode \in {"RGBA", "LA", "P"}

\* the derived figures of a scraper with the counters E, D and the target N
DerivedFigures(E, D, N) ==
    /\ get_total_images(E, D) = E + D
    /\ is_target_reached(E, D, N) <=> (E + D >= N)
    /\ get_remaining_needed(E, D, N) = (IF N - (E + D) > 0 THEN N - (E + D) ELSE 0)
    /\ is_target_reached(E, D, N) <=> (get_remaining_needed(E, D, N) = 0)

\* C24: in every state of a run the total, the target test and the remaining
\* need are as derived from the counters, and no step of the run changes
\* existing_count or lowers downloaded_count.
C24_DerivedFigures ==
    [][/\ DerivedFigures(existing_count, downloaded_count, min_images)
       /\ DerivedFigures(existing_count', downloaded_count', min_images')
       /\ existing_count' = existing_count
       /\ downloaded_count' >= downloaded_count]_vars

\* a run that has passed its target: the remaining need is 0, not negative
C24_Witness ==
    /\ caller = "run_scraping"
    /\ pc = "returned"
    /\ downloaded_count = 2
    /\ existing_count + downloaded_count > min_images
    /\ get_remaining_needed(existing_count, downloaded_count, min_images) = 0

\* C28 (as claimed): a call of download_image that returns False leaves the
\* species directory with the files, and their contents, it had before.
C28_RejectLeavesNoFile ==
    [][(download_image_call /\ ~last'.ok) => dir' = dir]_vars

\* C26 (as claimed): when run_scraping calls the Google routine on a scraper
\* built by the constructor, a driver is available and the result page has
\* acceptable images, the routine downloads at least one of them.
C26_GoogleFallsBack ==
    [][(/\ source_return
        /\ caller = "run_scraping"
        /\ Scrapers[src] = "google"
        /\ latin_name = "unset"
        /\ validLeft > 0) => images_collected > 0]_vars

\* C27 (as claimed): the downloaded_images figure of the result scrape_species
\* builds after running a scraper equals the number of images the species
\* directory holds, and the status is SUCCESS only when the directory holds at
\* least the target number of images.
C27_ReportMatchesDirectory ==
    (caller = "scrape_species" /\ pc = "result" /\ batch.attempts > 0) =>
        /\ batch.total_downloaded = count_existing_images(dir)
        /\ batch.status = "SUCCESS" => count_existing_images(dir) >= batch.target

\* C29 (as claimed): run_batch_scraping returns normally, with the final
\* report written, for every catalog, start row, cap, filter and target,
\* among them a selection of no species and a target of zero.
C29_BatchAlwaysReports ==
    caller = "run_batch_scraping" => pc \in {"rows", "returned"}

\* the local names of a catalog, and its rows without a local name
LocalNames(df) == {df[i].species_indonesia : i \in 1..Len(df)} \ {NaN}

Unnamed(df) == {i \in 1..Len(df) : df[i].species_indonesia = NaN}

\* C30 (as claimed): the catalog a reconciliation routine returns has the
\* local names of its input, and as many rows without a local name as the
\* input has.
C30_NoRecordLost ==
    (caller \in {"final_cleanup", "fix_fish_scraping"} /\ pc = "returned") =>
        /\ LocalNames(res) = LocalNames(arg)
        /\ Cardinality(Unnamed(res)) = Cardinality(Unnamed(arg))

\* the files of a directory written since the runs began
NewFiles(d) == {f \in FinalFiles(d) : d[f] = "new"}

\* C25: two runs whose scrapers counted the same number of images in the
\* species directory give their first files the same sequence number; when
\* the two files also have the same extension they are one file name, and the
\* directory holds fewer new files than the two runs have saved: one run's
\* file has replaced the other's.
C25_SameNumberCollides ==
    (/\ caller = "two_runs"
     /\ peer.built
     /\ peer.existing_count = existing_count
     /\ saved # <<>>
     /\ peer.saved # <<>>) =>
        /\ saved[1][2] = peer.saved[1][2]
        /\ saved[1][3] = peer.saved[1][3] =>
              /\ saved[1] = peer.saved[1]
              /\ Cardinality(NewFiles(dir)) < Len(saved) + Len(peer.saved)

\* both runs have saved one image under the same name, and the directory
\* holds one new file
C25_Witness ==
    /\ caller = "two_runs"
    /\ peer.built
    /\ Len(saved) = 1
    /\ Len(peer.saved) = 1
    /\ saved[1] = peer.saved[1]
    /\ Cardinality(NewFiles(dir)) = 1

====
